---- MODULE Spec2Model ----
(***************************************************************************)
(* A model of bustub's CountMinSketch<KeyType>                             *)
(* (src/src/primer/count_min_sketch.cpp).                                  *)
(*                                                                         *)
(* A sketch is a depth_ x width_ matrix of std::atomic<uint32_t> counters  *)
(* kept as one flat array count_matrix_ (cell (i, pos) at index            *)
(* i * width_ + pos) and a vector hash_functions_ of depth_ seeded hash    *)
(* functions.                                                              *)
(*                                                                         *)
(* Numbers.  TLC's integers are 32-bit signed, a counter is 32-bit         *)
(* unsigned, so a number is kept as two limbs <<hi, lo>> of base 2^16 with *)
(* value hi * 2^16 + lo.  A uint32_t has hi < 2^16; the call counts the    *)
(* model keeps beside the program's state are not truncated.               *)
(***************************************************************************)
EXTENDS Integers, Sequences, FiniteSets, TLC

(***************************************************************************)
(* Bounds of the model.                                                    *)
(***************************************************************************)
MaxWidth == 2       \* widths given to the constructor: 0..MaxWidth
MaxDepth == 2       \* depths given to the constructor: 0..MaxDepth
MaxInserts == 2     \* Insert calls, and runs of them, the callers make
MaxRuns == 1        \* of these, runs of RunLength consecutive calls
MaxMerges == 1      \* Merge calls the callers make
MaxQueries == 1     \* Count and TopK calls the callers make
MaxK == 2           \* k given to TopK: 0..MaxK
MaxCandidates == 3  \* length of the candidates given to TopK
CallsPerThread == 2 \* Insert calls each concurrent caller makes
MaxReads == 2       \* Count calls a thread makes beside the other threads
MaxClears == 1      \* Clear calls a thread makes beside the other threads
MaxThreadMerges == 2   \* Merge calls the threads make beside one another

Sketches == {"A", "B"}          \* the CountMinSketch objects of the program
Keys == {"a", "b", "c"}         \* the KeyType values the callers use
HashValues == 0 .. (MaxWidth - 1)   \* values a hash function returns
Threads == {"t1", "t2"}         \* concurrent callers of one object

(***************************************************************************)
(* Two-limb numbers.                                                       *)
(***************************************************************************)
Base == 2 ^ 16
Num(n) == <<n \div Base, n % Base>>
Zero == <<0, 0>>
One == <<0, 1>>
NumAdd(a, b) == <<a[1] + b[1] + ((a[2] + b[2]) \div Base), (a[2] + b[2]) % Base>>
NumLess(a, b) == a[1] < b[1] \/ (a[1] = b[1] /\ a[2] < b[2])
NumLeq(a, b) == ~NumLess(b, a)
IsU32(a) == a[1] < Base
\* conversion to uint32_t: the value modulo 2^32
ToU32(a) == <<a[1] % Base, a[2]>>
UINT32_MAX == <<Base - 1, Base - 1>>
\* the longest run of Insert calls a counter holds without wrapping
RunLength == UINT32_MAX

\* the sum of the numbers f[x], x in S
RECURSIVE NumSum(_, _)
NumSum(f, S) ==
    IF S = {} THEN Zero
    ELSE LET x == CHOOSE y \in S : TRUE
         IN NumAdd(f[x], NumSum(f, S \ {x}))

VARIABLES
    status,            \* per object: "none" (not constructed), "live", or
                       \* "moved" (emptied by a move from it)
    width_,            \* per object: uint32_t width_
    depth_,            \* per object: uint32_t depth_
    hash_functions_,   \* per object: the vector of hash functions, by seed
    count_matrix_,     \* per object: the flat array of atomic counters
    hashv,             \* what the hash function of each seed returns per key
    inserted,          \* per object and key: Insert calls since the last
                       \* Clear or construction
    content,           \* per object and key: the same, counting also the
                       \* calls merged in
    touched,           \* per object: an Insert or Merge was applied since the
                       \* last Clear or construction
    nInserts, nRuns, nMerges, nQueries,   \* calls made so far
    last,              \* the last call and what it returned
    call,              \* per thread: the call it is executing and the row
                       \* its loop is at
    ncalls,            \* per thread and key: Insert calls it has completed
    reads,             \* per key: the greatest result a Count call made
                       \* beside the other threads has returned
    nClears            \* Clear calls the threads have made

vars == <<status, width_, depth_, hash_functions_, count_matrix_, hashv,
          inserted, content, touched, nInserts, nRuns, nMerges, nQueries,
          last, call, ncalls, reads, nClears>>

threads == <<call, ncalls, reads, nClears>>

Live(s) == status[s] = "live"

\* an object that exists: constructed, or left empty by a move from it
Exists(s) == status[s] # "none"

NoCounts == [k \in Keys |-> Zero]

(***************************************************************************)
(* The hash functions.  HashFunction(seed) is declared in the class        *)
(* header; the constructor calls it with the row index as the seed.  It    *)
(* is a total, deterministic function of the seed and the key: hashv is    *)
(* its table, chosen once.  Renaming the columns of a row changes no       *)
(* result of any operation, so of the tables over HashValues the model     *)
(* keeps those in which key "a" hashes to 0 under every seed.              *)
(***************************************************************************)
HashTables ==
    {h \in [0 .. (MaxDepth - 1) -> [Keys -> HashValues]] :
        \A seed \in 0 .. (MaxDepth - 1) : h[seed]["a"] = 0}

HashFunction(seed, item) == hashv[seed][item]

\* mutant: store(n) for fetch_add(n), an update that loses the earlier ones
FetchAddStore(cell, n) == ToU32(n)

\* mutant: an addition that stops at UINT32_MAX
FetchAddSaturate(cell, n) ==
    IF IsU32(NumAdd(cell, n)) THEN NumAdd(cell, n) ELSE <<Base - 1, Base - 1>>

\* std::atomic<uint32_t>::fetch_add(n): one atomic addition modulo 2^32
FetchAdd(cell, n) == ToU32(NumAdd(cell, n))

(***************************************************************************)
(* CountMinSketch(uint32_t width, uint32_t depth)                          *)
(***************************************************************************)
\* mutant: && for ||
InvalidDimensionsBoth(width, depth) == width = 0 /\ depth = 0

InvalidDimensions(width, depth) == width = 0 \/ depth = 0

\* new std::atomic<uint32_t>[width_ * depth_], every element stored 0
NewMatrix(width, depth) == [i \in 0 .. (width * depth - 1) |-> Zero]

\* hash_functions_.push_back(this->HashFunction(i)) for i in [0, depth_)
NewHashFunctions(depth) == [i \in 0 .. (depth - 1) |-> i]

Construct(s, width, depth) ==
    /\ status[s] = "none"
    /\ IF InvalidDimensions(width, depth)
       THEN /\ last' = [op |-> "new", s |-> s, width |-> width, depth |-> depth,
                        error |-> "invalid_argument"]
            /\ UNCHANGED <<status, width_, depth_, hash_functions_, count_matrix_>>
       ELSE /\ status' = [status EXCEPT ![s] = "live"]
            /\ width_' = [width_ EXCEPT ![s] = width]
            /\ depth_' = [depth_ EXCEPT ![s] = depth]
            /\ count_matrix_' = [count_matrix_ EXCEPT ![s] = NewMatrix(width, depth)]
            /\ hash_functions_' = [hash_functions_ EXCEPT ![s] = NewHashFunctions(depth)]
            /\ last' = [op |-> "new", s |-> s, width |-> width, depth |-> depth,
                        error |-> "none"]
    /\ UNCHANGED <<hashv, inserted, content, touched, nInserts, nRuns, nMerges,
                   nQueries, threads, nClears>>

(***************************************************************************)
(* Insert(item)                                                            *)
(***************************************************************************)
\* mutant: the row offset i * width_ forgotten
InsertIndexNoRow(s, i, item) ==
    HashFunction(hash_functions_[s][i], item) % width_[s]

\* i * width_ + pos, with pos = hash_functions_[i](item) % width_
InsertIndex(s, i, item) ==
    i * width_[s] + (HashFunction(hash_functions_[s][i], item) % width_[s])

\* The loop over the rows, from row i on.  n is 1 for one call; a run of n
\* consecutive calls adds 1 to the same cells n times, n modulo 2^32 in all.
RECURSIVE InsertLoop(_, _, _, _, _)
InsertLoop(s, matrix, item, n, i) ==
    IF i < depth_[s]
    THEN InsertLoop(s, [matrix EXCEPT ![InsertIndex(s, i, item)] = FetchAdd(@, n)],
                    item, n, i + 1)
    ELSE matrix

Inserted(s, item, n) ==
    /\ count_matrix_' = [count_matrix_ EXCEPT ![s] = InsertLoop(s, @, item, n, 0)]
    /\ inserted' = [inserted EXCEPT ![s][item] = NumAdd(@, n)]
    /\ content' = [content EXCEPT ![s][item] = NumAdd(@, n)]
    /\ touched' = [touched EXCEPT ![s] = TRUE]
    /\ last' = [op |-> "Insert", s |-> s, item |-> item, times |-> n]
    /\ UNCHANGED <<status, width_, depth_, hash_functions_, hashv, nMerges,
                   nQueries, threads, nClears>>

Insert(s, item) ==
    /\ Exists(s)
    /\ nInserts < MaxInserts
    /\ nInserts' = nInserts + 1
    /\ Inserted(s, item, One)
    /\ UNCHANGED nRuns

\* RunLength consecutive Insert(item) calls of one caller, nothing in between
InsertRun(s, item) ==
    /\ Exists(s)
    /\ nInserts < MaxInserts /\ nRuns < MaxRuns
    /\ nInserts' = nInserts + 1 /\ nRuns' = nRuns + 1
    /\ Inserted(s, item, RunLength)

(***************************************************************************)
(* Merge(other)                                                            *)
(***************************************************************************)
\* mutant: > for !=
DimensionsDifferLarger(s, other) ==
    width_[s] > width_[other] \/ depth_[s] > depth_[other]

DimensionsDiffer(s, other) ==
    width_[s] # width_[other] \/ depth_[s] # depth_[other]

\* mutant: store for fetch_add
MergeCellStore(cell, other_count) ==
    IF NumLess(Zero, other_count) THEN ToU32(other_count) ELSE cell

\* mutant: fetch_add(1) for fetch_add(other_count)
MergeCellIncrement(cell, other_count) ==
    IF NumLess(Zero, other_count) THEN FetchAdd(cell, One) ELSE cell

\* mutant: store(other_count), untested, for the fetch_add
MergeCellAssign(cell, other_count) == ToU32(other_count)

\* other_count = other.count_matrix_[i].load(); if (other_count > 0) fetch_add
MergeCell(cell, other_count) ==
    IF NumLess(Zero, other_count) THEN FetchAdd(cell, other_count) ELSE cell

\* mutant: i < width_
MergeBoundFirstRow(s) == width_[s]

\* i < width_ * depth_
MergeBound(s) == width_[s] * depth_[s]

\* The loop over the cells, from cell i on; other may be the object itself.
RECURSIVE MergeLoop(_, _, _, _)
MergeLoop(s, other, matrices, i) ==
    IF i < MergeBound(s)
    THEN MergeLoop(s, other,
                   [matrices EXCEPT ![s][i] = MergeCell(@, matrices[other][i])],
                   i + 1)
    ELSE matrices

Merge(s, other) ==
    /\ Exists(s) /\ Exists(other)
    /\ nMerges < MaxThreadMerges
    /\ nMerges' = nMerges + 1
    /\ IF DimensionsDiffer(s, other)
       THEN /\ last' = [op |-> "Merge", s |-> s, other |-> other,
                        error |-> "invalid_argument"]
            /\ UNCHANGED <<count_matrix_, content, touched>>
       ELSE /\ count_matrix_' = MergeLoop(s, other, count_matrix_, 0)
            /\ content' = [content EXCEPT
                   ![s] = [k \in Keys |-> NumAdd(content[s][k], content[other][k])]]
            /\ touched' = [touched EXCEPT ![s] = TRUE]
            /\ last' = [op |-> "Merge", s |-> s, other |-> other, error |-> "none"]
    /\ UNCHANGED <<status, width_, depth_, hash_functions_, hashv, inserted,
                   nInserts, nRuns, nQueries, threads, nClears>>

(***************************************************************************)
(* Count(item)                                                             *)
(***************************************************************************)
CountIndex(s, i, item) ==
    i * width_[s] + (HashFunction(hash_functions_[s][i], item) % width_[s])

\* if (current_count < min_count) min_count = current_count
MinCount(current_count, min_count) ==
    IF NumLess(current_count, min_count) THEN current_count ELSE min_count

RECURSIVE CountLoop(_, _, _, _)
CountLoop(s, item, min_count, i) ==
    IF i < depth_[s]
    THEN CountLoop(s, item,
                   MinCount(count_matrix_[s][CountIndex(s, i, item)], min_count),
                   i + 1)
    ELSE min_count

\* mutant: min_count starts at 0
CountFromZero(s, item) == ToU32(CountLoop(s, item, Zero, 0))

\* size_t min_count = UINT32_MAX; ...; return min_count (as uint32_t)
Count(s, item) == ToU32(CountLoop(s, item, UINT32_MAX, 0))

CountCall(s, item) ==
    /\ Exists(s)
    /\ nQueries < MaxQueries
    /\ nQueries' = nQueries + 1
    /\ last' = [op |-> "Count", s |-> s, item |-> item, result |-> Count(s, item)]
    /\ UNCHANGED <<status, width_, depth_, hash_functions_, count_matrix_, hashv,
                   inserted, content, touched, nInserts, nRuns, nMerges, threads, nClears>>

(***************************************************************************)
(* Clear()                                                                 *)
(***************************************************************************)
\* mutant: i < depth_
ClearBoundDepth(s) == depth_[s]

\* i < width_ * depth_
ClearBound(s) == width_[s] * depth_[s]

RECURSIVE ClearLoop(_, _, _)
ClearLoop(s, matrix, i) ==
    IF i < ClearBound(s)
    THEN ClearLoop(s, [matrix EXCEPT ![i] = Zero], i + 1)
    ELSE matrix

Clear(s) ==
    /\ Exists(s)
    /\ count_matrix_' = [count_matrix_ EXCEPT ![s] = ClearLoop(s, @, 0)]
    /\ inserted' = [inserted EXCEPT ![s] = NoCounts]
    /\ content' = [content EXCEPT ![s] = NoCounts]
    /\ touched' = [touched EXCEPT ![s] = FALSE]
    /\ last' = [op |-> "Clear", s |-> s]
    /\ UNCHANGED <<status, width_, depth_, hash_functions_, hashv,
                   nInserts, nRuns, nMerges, nQueries, threads, nClears>>

(***************************************************************************)
(* TopK(uint16_t k, candidates)                                            *)
(***************************************************************************)
\* count_vector.emplace_back(item, Count(item)) for every candidate
CountVector(s, candidates) ==
    [j \in 1 .. Len(candidates) |-> <<candidates[j], Count(s, candidates[j])>>]

\* mutant: < for >
SortsBeforeAscending(a, b) == NumLess(a[2], b[2])

\* the comparator: a.second > b.second
SortsBefore(a, b) == NumLess(b[2], a[2])

\* std::sort leaves some permutation of the range in which no element sorts
\* before an earlier one; which one, among equal counts, is not specified
SortOutcomes(v) ==
    {w \in {[j \in 1 .. Len(v) |-> v[p[j]]] : p \in Permutations(1 .. Len(v))} :
        \A i, j \in 1 .. Len(v) : i < j => ~SortsBefore(w[j], w[i])}

\* mutant: resize(k) without the test of size() > k
TruncateAlways(count_vector, k) ==
    [j \in 1 .. k |-> IF j <= Len(count_vector) THEN count_vector[j]
                      ELSE <<"", Zero>>]

\* if (count_vector.size() > k) count_vector.resize(k)
Truncate(count_vector, k) ==
    IF Len(count_vector) > k THEN SubSeq(count_vector, 1, k) ELSE count_vector

TopK(s, k, candidates) ==
    /\ Exists(s)
    /\ nQueries < MaxQueries
    /\ nQueries' = nQueries + 1
    /\ \E sorted \in SortOutcomes(CountVector(s, candidates)) :
          last' = [op |-> "TopK", s |-> s, k |-> k, candidates |-> candidates,
                   result |-> Truncate(sorted, k)]
    /\ UNCHANGED <<status, width_, depth_, hash_functions_, count_matrix_, hashv,
                   inserted, content, touched, nInserts, nRuns, nMerges, threads, nClears>>

(***************************************************************************)
(* CountMinSketch(CountMinSketch &&other) and operator=(CountMinSketch &&) *)
(***************************************************************************)
\* a member of this taken from other, which is left with none: an empty
\* vector, a null unique_ptr
Transfer(f, s, other) == [f EXCEPT ![s] = f[other], ![other] = <<>>]

\* width_ = other.width_; ...; other.width_ = 0 (depth_ likewise)
Reset(f, s, other) == [f EXCEPT ![s] = f[other], ![other] = 0]

\* what the model keeps beside the counters moves with them
Moved(s, other) ==
    /\ status' = [status EXCEPT ![s] = status[other], ![other] = "moved"]
    /\ width_' = Reset(width_, s, other)
    /\ depth_' = Reset(depth_, s, other)
    /\ hash_functions_' = Transfer(hash_functions_, s, other)
    /\ count_matrix_' = Transfer(count_matrix_, s, other)
    /\ inserted' = [inserted EXCEPT ![s] = inserted[other], ![other] = NoCounts]
    /\ content' = [content EXCEPT ![s] = content[other], ![other] = NoCounts]
    /\ touched' = [touched EXCEPT ![s] = touched[other], ![other] = FALSE]

\* CountMinSketch s(std::move(other))
MoveConstruct(s, other) ==
    /\ status[s] = "none"
    /\ Exists(other)
    /\ Moved(s, other)
    /\ last' = [op |-> "move", s |-> s, other |-> other]
    /\ UNCHANGED <<hashv, nInserts, nRuns, nMerges, nQueries, threads, nClears>>

\* mutant: no test of this != &other
SelfAssignmentNever(s, other) == FALSE

\* this != &other fails
SelfAssignment(s, other) == s = other

\* s = std::move(other)
MoveAssign(s, other) ==
    /\ Exists(s) /\ Exists(other)
    /\ IF SelfAssignment(s, other)
       THEN UNCHANGED <<status, width_, depth_, hash_functions_, count_matrix_,
                        inserted, content, touched>>
       ELSE Moved(s, other)
    /\ last' = [op |-> "move=", s |-> s, other |-> other]
    /\ UNCHANGED <<hashv, nInserts, nRuns, nMerges, nQueries, threads, nClears>>

(***************************************************************************)
(* The program: objects are constructed and called one call at a time.     *)
(***************************************************************************)
Init ==
    /\ status = [s \in Sketches |-> "none"]
    /\ width_ = [s \in Sketches |-> 0]
    /\ depth_ = [s \in Sketches |-> 0]
    /\ hash_functions_ = [s \in Sketches |-> <<>>]
    /\ count_matrix_ = [s \in Sketches |-> <<>>]
    /\ hashv \in HashTables
    /\ inserted = [s \in Sketches |-> NoCounts]
    /\ content = [s \in Sketches |-> NoCounts]
    /\ touched = [s \in Sketches |-> FALSE]
    /\ nInserts = 0 /\ nRuns = 0 /\ nMerges = 0 /\ nQueries = 0
    /\ last = [op |-> "none"]
    /\ call = [t \in Threads |-> [op |-> "idle"]]
    /\ ncalls = [t \in Threads |-> [k \in Keys |-> 0]]
    /\ reads = NoCounts
    /\ nClears = 0

\* where the calls made do not turn on which keys share a counter, the
\* tables in which key "c" shares every counter of key "a" are enough
InitFewTables ==
    /\ Init
    /\ \A seed \in 0 .. (MaxDepth - 1) : hashv[seed]["c"] = hashv[seed]["a"]

Next ==
    \/ \E s \in Sketches, width \in 0 .. MaxWidth, depth \in 0 .. MaxDepth :
          Construct(s, width, depth)
    \/ \E s \in Sketches, item \in Keys : Insert(s, item)
    \/ \E s \in Sketches, item \in Keys : InsertRun(s, item)
    \/ \E s \in Sketches, other \in Sketches : Merge(s, other)
    \/ \E s \in Sketches : Clear(s)

Spec == Init /\ [][Next]_vars

(***************************************************************************)
(* A program that fills one sketch and queries it.                         *)
(***************************************************************************)
Queried == "A"

RECURSIVE SeqsUpTo(_, _)
SeqsUpTo(S, n) ==
    IF n = 0 THEN {<<>>}
    ELSE LET shorter == SeqsUpTo(S, n - 1)
         IN shorter \cup {Append(q, x) : q \in shorter, x \in S}

CandidateLists == SeqsUpTo(Keys, MaxCandidates)

NextQuery ==
    \/ \E width \in 0 .. MaxWidth, depth \in 0 .. MaxDepth :
          Construct(Queried, width, depth)
    \/ \E item \in Keys : Insert(Queried, item)
    \/ \E item \in Keys : InsertRun(Queried, item)
    \/ \E item \in Keys : CountCall(Queried, item)
    \/ \E k \in 0 .. MaxK, candidates \in CandidateLists :
          TopK(Queried, k, candidates)

SpecQuery == Init /\ [][NextQuery]_vars

(***************************************************************************)
(* Concurrent callers of one sketch.  The object is constructed, and may   *)
(* be given a run of Insert calls, before the threads start; each thread   *)
(* then makes Insert calls, whose loop takes one atomic fetch_add per      *)
(* step, interleaved with the steps of the others; Count is called when    *)
(* no thread is inside a call.                                             *)
(***************************************************************************)
Shared == "A"

RECURSIVE Total(_, _)
Total(f, S) ==
    IF S = {} THEN 0
    ELSE LET x == CHOOSE y \in S : TRUE IN f[x] + Total(f, S \ {x})

Idle(t) == call[t].op = "idle"
NoneStarted == \A t \in Threads : Idle(t) /\ Total(ncalls[t], Keys) = 0
AllReturned == \A t \in Threads : Idle(t)

\* a thread calls Insert(item)
BeginInsert(t, s, item) ==
    /\ Idle(t)
    /\ Live(s)
    /\ Total(ncalls[t], Keys) < CallsPerThread
    /\ call' = [call EXCEPT ![t] = [op |-> "Insert", s |-> s, item |-> item, i |-> 0]]
    /\ UNCHANGED <<status, width_, depth_, hash_functions_, count_matrix_, hashv,
                   inserted, content, touched, nInserts, nRuns, nMerges, nQueries,
                   last, ncalls, reads, nClears>>

\* one iteration of the loop: count_matrix_[index].fetch_add(1)
InsertStep(t) ==
    /\ call[t].op = "Insert"
    /\ call[t].i < depth_[call[t].s]
    /\ count_matrix_' =
          [count_matrix_ EXCEPT
              ![call[t].s][InsertIndex(call[t].s, call[t].i, call[t].item)] =
                  FetchAdd(@, One)]
    /\ touched' = [touched EXCEPT ![call[t].s] = TRUE]
    /\ call' = [call EXCEPT ![t].i = @ + 1]
    /\ UNCHANGED <<status, width_, depth_, hash_functions_, hashv, inserted, content,
                   nInserts, nRuns, nMerges, nQueries, last, ncalls, reads, nClears>>

\* the loop is over and the call returns
EndInsert(t) ==
    /\ call[t].op = "Insert"
    /\ ~(call[t].i < depth_[call[t].s])
    /\ call' = [call EXCEPT ![t] = [op |-> "idle"]]
    /\ ncalls' = [ncalls EXCEPT ![t][call[t].item] = @ + 1]
    /\ inserted' = [inserted EXCEPT ![call[t].s][call[t].item] = NumAdd(@, One)]
    /\ content' = [content EXCEPT ![call[t].s][call[t].item] = NumAdd(@, One)]
    /\ last' = [op |-> "Insert", s |-> call[t].s, item |-> call[t].item,
                times |-> One]
    /\ UNCHANGED <<status, width_, depth_, hash_functions_, count_matrix_, hashv,
                   touched, nInserts, nRuns, nMerges, nQueries, reads, nClears>>

NextConc ==
    \/ \E width \in 0 .. MaxWidth, depth \in 0 .. MaxDepth :
          Construct(Shared, width, depth)
    \/ \E item \in Keys : NoneStarted /\ InsertRun(Shared, item)
    \/ \E t \in Threads, item \in Keys : BeginInsert(t, Shared, item)
    \/ \E t \in Threads : InsertStep(t)
    \/ \E t \in Threads : EndInsert(t)
    \/ \E item \in Keys : AllReturned /\ CountCall(Shared, item)

SpecConc == Init /\ [][NextConc]_vars

(***************************************************************************)
(* Merge, Count and Clear called by a thread beside the others.  Each      *)
(* takes one step per iteration of its loop: one atomic load, fetch_add or *)
(* store.                                                                  *)
(***************************************************************************)
Operand == "B"

shape == <<status, width_, depth_, hash_functions_, hashv>>
budgets == <<nInserts, nRuns, nMerges, nQueries>>

\* nothing has been called by a thread yet
Unstarted == NoneStarted /\ nMerges = 0 /\ nQueries = 0 /\ nClears = 0

\* the Insert calls on s that have begun and not returned
InFlight(s) == {t \in Threads : call[t].op = "Insert" /\ call[t].s = s}

\* the Insert calls on s that have begun, the returned ones included
Started(s) == NumAdd(NumSum(inserted[s], Keys), Num(Cardinality(InFlight(s))))

\* a thread calls Merge(other): the test of the dimensions, and the throw
BeginMerge(t, s, other) ==
    /\ Idle(t)
    /\ Live(s) /\ Live(other)
    /\ nMerges < MaxThreadMerges
    /\ nMerges' = nMerges + 1
    /\ IF DimensionsDiffer(s, other)
       THEN /\ last' = [op |-> "Merge", s |-> s, other |-> other,
                        error |-> "invalid_argument"]
            /\ UNCHANGED call
       ELSE /\ call' = [call EXCEPT
                   ![t] = [op |-> "Merge", s |-> s, other |-> other, i |-> 0]]
            /\ UNCHANGED last
    /\ UNCHANGED <<shape, count_matrix_, inserted, content, touched,
                   nInserts, nRuns, nQueries, ncalls, reads, nClears>>

\* one iteration: the load of other's cell and the fetch_add to this one's.
\* No call writes other while a Merge reads it, so the two are one step.
MergeAdd(t) ==
    /\ call[t].op = "Merge"
    /\ call[t].i < MergeBound(call[t].s)
    /\ count_matrix_' =
          [count_matrix_ EXCEPT
              ![call[t].s][call[t].i] =
                  MergeCell(@, count_matrix_[call[t].other][call[t].i])]
    /\ touched' = [touched EXCEPT ![call[t].s] = TRUE]
    /\ call' = [call EXCEPT ![t].i = @ + 1]
    /\ UNCHANGED <<shape, inserted, content, budgets, last, ncalls, reads, nClears>>

EndMerge(t) ==
    /\ call[t].op = "Merge"
    /\ ~(call[t].i < MergeBound(call[t].s))
    /\ call' = [call EXCEPT ![t] = [op |-> "idle"]]
    /\ content' = [content EXCEPT
           ![call[t].s] = [k \in Keys |->
                              NumAdd(content[call[t].s][k], content[call[t].other][k])]]
    /\ last' = [op |-> "Merge", s |-> call[t].s, other |-> call[t].other,
                error |-> "none"]
    /\ UNCHANGED <<shape, count_matrix_, inserted, touched, budgets, ncalls, reads, nClears>>

\* a thread calls Count(item): min_count = UINT32_MAX.  The call notes the
\* Insert(item) calls that have returned and the greatest result returned
\* for item so far.
BeginCount(t, s, item) ==
    /\ Idle(t)
    /\ Live(s)
    /\ nQueries < MaxReads
    /\ nQueries' = nQueries + 1
    /\ call' = [call EXCEPT
           ![t] = [op |-> "Count", s |-> s, item |-> item, i |-> 0,
                   min_count |-> UINT32_MAX,
                   completed |-> inserted[s][item], floor |-> reads[item]]]
    /\ UNCHANGED <<shape, count_matrix_, inserted, content, touched,
                   nInserts, nRuns, nMerges, last, ncalls, reads, nClears>>

\* one iteration: the load of the key's counter of row i, and the minimum
CountLoad(t) ==
    /\ call[t].op = "Count"
    /\ call[t].i < depth_[call[t].s]
    /\ call' = [call EXCEPT
           ![t].min_count =
               MinCount(count_matrix_[call[t].s]
                            [CountIndex(call[t].s, call[t].i, call[t].item)], @),
           ![t].i = @ + 1]
    /\ UNCHANGED <<shape, count_matrix_, inserted, content, touched, budgets,
                   last, ncalls, reads, nClears>>

EndCount(t) ==
    /\ call[t].op = "Count"
    /\ ~(call[t].i < depth_[call[t].s])
    /\ call' = [call EXCEPT ![t] = [op |-> "idle"]]
    /\ last' = [op |-> "Count", s |-> call[t].s, item |-> call[t].item,
                result |-> ToU32(call[t].min_count),
                completed |-> call[t].completed, floor |-> call[t].floor,
                started |-> Started(call[t].s)]
    /\ reads' = [reads EXCEPT
           ![call[t].item] = IF NumLess(@, ToU32(call[t].min_count))
                             THEN ToU32(call[t].min_count) ELSE @]
    /\ UNCHANGED <<shape, count_matrix_, inserted, content, touched, budgets,
                   ncalls, nClears>>

\* a thread calls Clear()
BeginClear(t, s) ==
    /\ Idle(t)
    /\ Live(s)
    /\ nClears < MaxClears
    /\ nClears' = nClears + 1
    /\ call' = [call EXCEPT ![t] = [op |-> "Clear", s |-> s, i |-> 0]]
    /\ UNCHANGED <<shape, count_matrix_, inserted, content, touched, budgets,
                   last, ncalls, reads>>

\* one iteration: count_matrix_[i].store(0)
ClearStore(t) ==
    /\ call[t].op = "Clear"
    /\ call[t].i < ClearBound(call[t].s)
    /\ count_matrix_' = [count_matrix_ EXCEPT ![call[t].s][call[t].i] = Zero]
    /\ call' = [call EXCEPT ![t].i = @ + 1]
    /\ UNCHANGED <<shape, inserted, content, touched, budgets, last, ncalls, reads, nClears>>

\* Clear returns; the calls counted are from here on those since this Clear
EndClear(t) ==
    /\ call[t].op = "Clear"
    /\ ~(call[t].i < ClearBound(call[t].s))
    /\ call' = [call EXCEPT ![t] = [op |-> "idle"]]
    /\ inserted' = [inserted EXCEPT ![call[t].s] = NoCounts]
    /\ content' = [content EXCEPT ![call[t].s] = NoCounts]
    /\ touched' = [touched EXCEPT ![call[t].s] = FALSE]
    /\ last' = [op |-> "Clear", s |-> call[t].s]
    /\ UNCHANGED <<shape, count_matrix_, budgets, ncalls, reads, nClears>>

(***************************************************************************)
(* One thread inserts into and merges into the shared sketch while another *)
(* counts one key.  The shared sketch and the operand of the merges, of    *)
(* the same shape, are set up before the threads start.  Under             *)
(* InitFewTables key "c" is key "a" by another name: the threads use the   *)
(* other two.                                                              *)
(***************************************************************************)
Writer == "t1"
Reader == "t2"
Counted == "a"
Colliding == "b"

Setup ==
    \/ \E width \in 1 .. MaxWidth, depth \in 1 .. MaxDepth :
          Construct(Shared, width, depth)
    \/ Live(Shared) /\ Construct(Operand, width_[Shared], depth_[Shared])
    \/ \E item \in {Counted, Colliding} : Insert(Operand, item)
    \/ InsertRun(Shared, Counted)

NextOverlap ==
    \/ Unstarted /\ Setup
    \/ \E item \in {Counted, Colliding} : BeginInsert(Writer, Shared, item)
    \/ InsertStep(Writer)
    \/ EndInsert(Writer)
    \/ BeginMerge(Writer, Shared, Operand)
    \/ MergeAdd(Writer)
    \/ EndMerge(Writer)
    \/ BeginCount(Reader, Shared, Counted)
    \/ CountLoad(Reader)
    \/ EndCount(Reader)

SpecOverlap == InitFewTables /\ [][NextOverlap]_vars

(***************************************************************************)
(* One thread inserts into a freshly constructed sketch while another      *)
(* clears it.                                                              *)
(***************************************************************************)
Clearer == "t2"

NextClear ==
    \/ Unstarted /\ \E width \in 1 .. MaxWidth, depth \in 1 .. MaxDepth :
                       Construct(Shared, width, depth)
    \/ \E item \in Keys : BeginInsert(Writer, Shared, item)
    \/ InsertStep(Writer)
    \/ EndInsert(Writer)
    \/ BeginClear(Clearer, Shared)
    \/ ClearStore(Clearer)
    \/ EndClear(Clearer)

SpecClear == Init /\ [][NextClear]_vars

(***************************************************************************)
(* Both threads insert into and merge into the shared sketch.  The shared  *)
(* sketch and the operand of the merges are set up before the threads      *)
(* start, and no call writes the operand after that.                       *)
(***************************************************************************)
SetupWriters ==
    \/ \E width \in 1 .. MaxWidth, depth \in 1 .. MaxDepth :
          Construct(Shared, width, depth)
    \/ Live(Shared) /\ Construct(Operand, width_[Shared], depth_[Shared])
    \/ \E s \in {Shared, Operand} : Insert(s, Counted)
    \/ InsertRun(Shared, Counted)

NextWriters ==
    \/ Unstarted /\ SetupWriters
    \/ \E t \in Threads, item \in {Counted, Colliding} : BeginInsert(t, Shared, item)
    \/ \E t \in Threads : InsertStep(t)
    \/ \E t \in Threads : EndInsert(t)
    \/ \E t \in Threads : BeginMerge(t, Shared, Operand)
    \/ \E t \in Threads : MergeAdd(t)
    \/ \E t \in Threads : EndMerge(t)

SpecWriters == InitFewTables /\ [][NextWriters]_vars

(***************************************************************************)
(* A program that also moves its sketches, and goes on calling the         *)
(* objects moved from.                                                     *)
(***************************************************************************)
NextMove ==
    \/ \E s \in Sketches, width \in 1 .. MaxWidth, depth \in 1 .. MaxDepth :
          Construct(s, width, depth)
    \/ \E s \in Sketches, item \in Keys : Insert(s, item)
    \/ \E s \in Sketches, other \in Sketches : Merge(s, other)
    \/ \E s \in Sketches : Clear(s)
    \/ \E s \in Sketches, item \in Keys : CountCall(s, item)
    \/ \E s \in Sketches, other \in Sketches : MoveConstruct(s, other)
    \/ \E s \in Sketches, other \in Sketches : MoveAssign(s, other)

SpecMove == InitFewTables /\ [][NextMove]_vars

(***************************************************************************)
(* A program that makes every call that is not a move: those of Spec, and  *)
(* one Count, or TopK over all the keys, of the sketch queried.            *)
(***************************************************************************)
AllKeys == <<"a", "b", "c">>

NextAll ==
    \/ \E s \in Sketches, width \in 1 .. MaxWidth, depth \in 1 .. MaxDepth :
          Construct(s, width, depth)
    \/ \E s \in Sketches, item \in Keys : Insert(s, item)
    \/ \E s \in Sketches, item \in Keys : InsertRun(s, item)
    \/ \E s \in Sketches, other \in Sketches : Merge(s, other)
    \/ \E s \in Sketches : Clear(s)
    \/ \E item \in Keys : CountCall(Queried, item)
    \/ TopK(Queried, MaxK, AllKeys)

SpecAll == InitFewTables /\ [][NextAll]_vars

(***************************************************************************)
(* What the claims are stated with.                                        *)
(***************************************************************************)
Rows(s) == 0 .. (depth_[s] - 1)

\* the column of row i that the hash function of seed i gives key k
Slot(s, i, k) == hashv[i][k] % width_[s]

\* the increments cell (i, pos) of s has received since the last Clear,
\* the merged-in ones included, not reduced modulo 2^32
Received(s, i, pos) ==
    NumSum(content[s], {k \in Keys : Slot(s, i, k) = pos})

\* no counter that Count(k) reads has wrapped since the last Clear
NoWrapFor(s, k) == \A i \in Rows(s) : IsU32(Received(s, i, Slot(s, i, k)))

\* a new sketch of the shape of s after the Insert calls counted in counts
RECURSIVE InsertAll(_, _, _, _)
InsertAll(s, matrix, counts, S) ==
    IF S = {} THEN matrix
    ELSE LET k == CHOOSE y \in S : TRUE
         IN InsertAll(s, InsertLoop(s, matrix, k, counts[k], 0), counts, S \ {k})

InsertedTogether(s) ==
    InsertAll(s, NewMatrix(width_[s], depth_[s]), content[s], Keys)

MergeDone == last.op = "Merge" /\ last.error = "none"
MergeStep == nMerges' = nMerges + 1
MergeSucceeds == MergeStep /\ last'.error = "none"
MergeOf(s, other) == MergeSucceeds /\ last'.s = s /\ last'.other = other

(***************************************************************************)
(* C1.  No-underestimate: for every key, Count(key) is at least the        *)
(* number of Insert calls made for that key since the last Clear or since  *)
(* construction.                                                           *)
(***************************************************************************)
C1_NoUnderestimate ==
    \A s \in Sketches : \A k \in Keys :
        Live(s) => NumLeq(inserted[s][k], Count(s, k))

\* C1 as amended: the same, for a key none of whose counters has wrapped
\* around 2^32 since the last Clear.
C1_NoUnderestimateUnlessWrapped ==
    \A s \in Sketches : \A k \in Keys :
        Live(s) /\ NoWrapFor(s, k) => NumLeq(inserted[s][k], Count(s, k))

\* two keys inserted once each that share every counter: both count 2
C1_Witness ==
    \E s \in Sketches : \E k1, k2 \in Keys :
        /\ Live(s) /\ depth_[s] = MaxDepth /\ k1 # k2
        /\ inserted[s][k1] = One /\ inserted[s][k2] = One
        /\ NoWrapFor(s, k1)
        /\ Count(s, k1) = Num(2)

(***************************************************************************)
(* C3.  Merge is equivalent to inserting together: after a successful      *)
(* A.Merge(B) the counter matrix of A is that of a new sketch to which     *)
(* every Insert made on A and every Insert made on B was applied.          *)
(***************************************************************************)
C3_MergeAsInsertedTogether ==
    MergeDone => count_matrix_[last.s] = InsertedTogether(last.s)

C3_Witness ==
    /\ MergeDone /\ last.s # last.other
    /\ \E k1, k2 \in Keys :
          /\ k1 # k2
          /\ inserted[last.s][k1] = One
          /\ inserted[last.other][k2] = One
          /\ \E i \in Rows(last.s) : Slot(last.s, i, k1) = Slot(last.s, i, k2)

(***************************************************************************)
(* C4.  Zero-state: after construction and after Clear, Count(key) = 0     *)
(* for every key, until a later Insert or Merge.                           *)
(***************************************************************************)
C4_ZeroState ==
    \A s \in Sketches : \A k \in Keys :
        Live(s) /\ ~touched[s] => Count(s, k) = Zero

\* a Clear of the only sketch, which had been inserted into
C4_Witness ==
    /\ last.op = "Clear" /\ nInserts > 0
    /\ \A s \in Sketches : s # last.s => status[s] = "none"
    /\ depth_[last.s] = MaxDepth /\ width_[last.s] = MaxWidth

(***************************************************************************)
(* C6.  Merge rejects mismatched shapes: when the operands differ in       *)
(* width or in depth, Merge fails with invalid_argument and no counter,    *)
(* width or depth of either operand changes.                               *)
(***************************************************************************)
C6_MergeRejectsMismatch ==
    [][MergeStep /\ (width_[last'.s] # width_[last'.other]
                       \/ depth_[last'.s] # depth_[last'.other])
         => /\ last'.error = "invalid_argument"
            /\ UNCHANGED <<count_matrix_, width_, depth_>>]_vars

C6_Witness ==
    /\ last.op = "Merge" /\ last.error = "invalid_argument"
    /\ width_[last.s] = width_[last.other]
    /\ depth_[last.s] # depth_[last.other]
    /\ touched[last.s] /\ touched[last.other]

(***************************************************************************)
(* C7.  Construction rejects degenerate shapes: with width = 0 or          *)
(* depth = 0 the constructor fails with invalid_argument and yields no     *)
(* object; every constructed sketch has width > 0 and depth > 0.           *)
(***************************************************************************)
C7_ConstructionRejectsZero ==
    /\ \A s \in Sketches : Live(s) => width_[s] > 0 /\ depth_[s] > 0
    /\ last.op = "new" /\ (last.width = 0 \/ last.depth = 0)
          => last.error = "invalid_argument" /\ status[last.s] = "none"

C7_Witness ==
    /\ last.op = "new" /\ last.width > 0 /\ last.depth = 0
    /\ last.error = "invalid_argument"
    /\ \E s \in Sketches : Live(s)

(***************************************************************************)
(* C8.  A successful Merge is a cell-wise sum: every cell of this equals   *)
(* its value before the call plus the value of the same cell of other      *)
(* before the call, and the cells of other are unchanged.  (The sum is     *)
(* read as the counters' own addition, modulo 2^32.)                       *)
(***************************************************************************)
C8_MergeCellwiseSum ==
    [][\A s, other \in Sketches :
          MergeOf(s, other) =>
             /\ \A i \in DOMAIN count_matrix_[s] :
                   count_matrix_'[s][i] =
                       FetchAdd(count_matrix_[s][i], count_matrix_[other][i])
             /\ count_matrix_'[other] = count_matrix_[other]]_vars

\* C8 as amended: the cells of other are unchanged when other is another
\* object than this (in this.Merge(this) other is this, and every cell is
\* doubled); the sum is the counters' own, modulo 2^32.
C8_MergeCellwiseSumOfOther ==
    [][\A s, other \in Sketches :
          MergeOf(s, other) =>
             /\ DOMAIN count_matrix_'[s] = DOMAIN count_matrix_[s]
             /\ \A i \in DOMAIN count_matrix_[s] :
                   count_matrix_'[s][i] =
                       FetchAdd(count_matrix_[s][i], count_matrix_[other][i])
             /\ other # s => count_matrix_'[other] = count_matrix_[other]]_vars

\* a merge of two objects in which a cell nonzero in both was summed
C8_Witness ==
    /\ MergeDone /\ last.s # last.other
    /\ \E i \in DOMAIN count_matrix_[last.s] :
          /\ count_matrix_[last.other][i] # Zero
          /\ count_matrix_[last.s][i] # count_matrix_[last.other][i]
    /\ \E i \in DOMAIN count_matrix_[last.s] : count_matrix_[last.other][i] = Zero

(***************************************************************************)
(* C2.  Merge correctness: for sketches A and B of the same width, depth   *)
(* and hash assignment, the sketch C obtained by merging them satisfies,   *)
(* for every key, C.Count(key) = A.Count(key) + B.Count(key).  (The sum    *)
(* is read as the sum of two uint32_t results, modulo 2^32.)               *)
(***************************************************************************)
\* the counters of s and of other that Count(k) reads do not wrap when added
NoWrapInMerge(s, other, k) ==
    \A i \in Rows(s) :
        IsU32(NumAdd(count_matrix_[s][i * width_[s] + Slot(s, i, k)],
                     count_matrix_[other][i * width_[s] + Slot(s, i, k)]))

\* one row holds the smallest counter of k in s and in other
CommonMinimumRow(s, other, k) ==
    \E i \in Rows(s) :
        /\ count_matrix_[s][i * width_[s] + Slot(s, i, k)] = Count(s, k)
        /\ count_matrix_[other][i * width_[s] + Slot(s, i, k)] = Count(other, k)

\* C2 as stated, taken only where no counter of the key wraps in the merge
\* (where one does, the counts are not even ordered as the claim's are).
C2_MergeCountsAdd ==
    [][\A s, other \in Sketches :
          MergeOf(s, other) =>
             \A k \in Keys :
                NoWrapInMerge(s, other, k) =>
                   Count(s, k)' = FetchAdd(Count(s, k), Count(other, k))]_vars

\* C2 as amended: when the counters of the key do not wrap in the merge,
\* C.Count(key) >= A.Count(key) + B.Count(key), and the two are equal when
\* one row holds the key's smallest counter in A and in B.
C2_MergeCountsAtLeastAdd ==
    [][\A s, other \in Sketches :
          MergeOf(s, other) =>
             \A k \in Keys :
                NoWrapInMerge(s, other, k) =>
                   /\ NumLeq(NumAdd(Count(s, k), Count(other, k)), Count(s, k)')
                   /\ CommonMinimumRow(s, other, k) =>
                         Count(s, k)' = FetchAdd(Count(s, k), Count(other, k))]_vars

\* a merge of two objects after which a key counts 1 = 1 + 0
C2_Witness ==
    /\ MergeDone /\ last.s # last.other
    /\ depth_[last.s] = MaxDepth /\ width_[last.s] = MaxWidth
    /\ \E k \in Keys :
          /\ inserted[last.s][k] = One
          /\ content[last.s][k] = One
          /\ Count(last.other, k) = Zero
          /\ content[last.other] # NoCounts
          /\ Count(last.s, k) = One

(***************************************************************************)
(* C9.  TopK ordering: TopK returns pairs (c, Count(c)) of candidates c,   *)
(* in non-increasing order of estimate, and no candidate left out of the   *)
(* result has an estimate strictly greater than that of a returned entry;  *)
(* so a candidate inserted more often than every other candidate, in a     *)
(* collision-free sketch, comes first (in a result that has a first        *)
(* entry).                                                                 *)
(***************************************************************************)
TopKDone == last.op = "TopK"

\* the result is the head of some arrangement of the candidates' pairs,
\* non-increasing, whose tail holds no greater estimate than the head does
OrderedSelection(s, candidates, result) ==
    /\ Len(result) <= Len(candidates)
    /\ \E p \in Permutations(1 .. Len(candidates)) :
          /\ \A j \in 1 .. Len(result) :
                result[j] = <<candidates[p[j]], Count(s, candidates[p[j]])>>
          /\ \A j \in (Len(result) + 1) .. Len(candidates) :
                \A i \in 1 .. Len(result) :
                    NumLeq(Count(s, candidates[p[j]]), result[i][2])
    /\ \A i, j \in 1 .. Len(result) : i < j => NumLeq(result[j][2], result[i][2])

Range(q) == {q[j] : j \in DOMAIN q}

\* no two of the keys given to the sketch or asked about share a counter
CollisionFree(s, candidates) ==
    \A k1, k2 \in Range(candidates) \cup {k \in Keys : content[s][k] # Zero} :
        k1 # k2 => \A i \in Rows(s) : Slot(s, i, k1) # Slot(s, i, k2)

\* candidate c was inserted more often than every other candidate
InsertedMost(s, candidates, c) ==
    /\ c \in Range(candidates)
    /\ \A c2 \in Range(candidates) :
          c2 # c => NumLess(inserted[s][c2], inserted[s][c])

C9_TopKOrdering ==
    TopKDone =>
       /\ OrderedSelection(last.s, last.candidates, last.result)
       /\ \A c \in Keys :
             /\ last.k >= 1
             /\ CollisionFree(last.s, last.candidates)
             /\ InsertedMost(last.s, last.candidates, c)
             => last.result[1][1] = c

\* C9 as amended: the candidate inserted most often comes first when, in
\* addition, none of its counters has wrapped around 2^32 since the last
\* Clear.
C9_TopKOrderingUnlessWrapped ==
    TopKDone =>
       /\ OrderedSelection(last.s, last.candidates, last.result)
       /\ \A c \in Keys :
             /\ last.k >= 1
             /\ CollisionFree(last.s, last.candidates)
             /\ InsertedMost(last.s, last.candidates, c)
             /\ NoWrapFor(last.s, c)
             => last.result[1][1] = c

\* three candidates, two of them one key, the other key inserted more often
\* and listed last; two entries returned, the first greater than the second
C9_Witness ==
    /\ TopKDone /\ last.k = 2 /\ Len(last.candidates) = 3
    /\ \E c \in Keys :
          /\ last.candidates[3] = c /\ last.candidates[1] # c
          /\ CollisionFree(last.s, last.candidates)
          /\ InsertedMost(last.s, last.candidates, c)
          /\ NoWrapFor(last.s, c)
          /\ inserted[last.s][last.candidates[1]] # Zero
    /\ Len(last.result) = 2
    /\ NumLess(last.result[2][2], last.result[1][2])

(***************************************************************************)
(* C10.  TopK size and totality: for every k (0 included) and every        *)
(* candidate sequence (the empty one included) TopK raises no error and    *)
(* returns exactly min(k, |candidates|) entries; the result is empty when  *)
(* k = 0 or candidates is empty.                                           *)
(***************************************************************************)
Min(a, b) == IF a < b THEN a ELSE b

C10_TopKSize ==
    /\ TopKDone =>
          /\ Len(last.result) = Min(last.k, Len(last.candidates))
          /\ last.k = 0 \/ last.candidates = <<>> => last.result = <<>>
    /\ \A s \in Sketches :
          Live(s) /\ nQueries < MaxQueries =>
             \A k \in 0 .. MaxK, candidates \in CandidateLists :
                \E sorted \in SortOutcomes(CountVector(s, candidates)) :
                    Len(Truncate(sorted, k)) = Min(k, Len(candidates))

\* more candidates than k: the result was cut to k entries
C10_Witness ==
    /\ TopKDone /\ last.k = 1 /\ Len(last.candidates) = MaxCandidates
    /\ Len(last.result) = 1
    /\ touched[last.s]

(***************************************************************************)
(* C5.  Concurrency no-lost-update: when T concurrent callers each perform *)
(* N Insert calls for the same key on one sketch, a Count of that key      *)
(* issued after all callers have completed returns at least T * N.         *)
(***************************************************************************)
\* the Count that has just returned was made with no caller inside a call,
\* each of the T callers having completed N Insert calls for its key
CountAfter(N) ==
    /\ last.op = "Count"
    /\ N >= 1
    /\ \A t \in Threads : ncalls[t][last.item] = N

C5_NoLostUpdate ==
    \A N \in 1 .. CallsPerThread :
        CountAfter(N) => NumLeq(Num(Cardinality(Threads) * N), last.result)

\* C5 as amended: the same, when none of the key's counters has wrapped
\* around 2^32 since the last Clear.
C5_NoLostUpdateUnlessWrapped ==
    \A N \in 1 .. CallsPerThread :
        CountAfter(N) /\ NoWrapFor(last.s, last.item)
           => NumLeq(Num(Cardinality(Threads) * N), last.result)

\* every caller has made all its calls for one key, of a sketch with more
\* than one row, and Count returns exactly T * N
C5_Witness ==
    /\ CountAfter(CallsPerThread)
    /\ depth_[last.s] = MaxDepth
    /\ NoWrapFor(last.s, last.item)
    /\ last.result = Num(Cardinality(Threads) * CallsPerThread)

(***************************************************************************)
(* C12.  Move transfers the sketch: after move construction or move        *)
(* assignment from a source other than the destination, the destination    *)
(* has the source's prior width, depth, hash functions and counters (so    *)
(* Count on it is what Count on the source was, for every key), the source *)
(* has width 0 and depth 0 and owns no counters; a self-move-assignment    *)
(* changes nothing.                                                        *)
(***************************************************************************)
MoveOf(s, other) ==
    last'.op \in {"move", "move="} /\ last'.s = s /\ last'.other = other

C12_MoveTransfers ==
    [][\A s, other \in Sketches :
          MoveOf(s, other) =>
             IF s # other
             THEN /\ width_'[s] = width_[other]
                  /\ depth_'[s] = depth_[other]
                  /\ hash_functions_'[s] = hash_functions_[other]
                  /\ count_matrix_'[s] = count_matrix_[other]
                  /\ \A k \in Keys : Count(s, k)' = Count(other, k)
                  /\ width_'[other] = 0
                  /\ depth_'[other] = 0
                  /\ DOMAIN count_matrix_'[other] = {}
             ELSE UNCHANGED <<status, width_, depth_, hash_functions_,
                              count_matrix_>>]_vars

\* a sketch that had been inserted into was move-assigned to another object,
\* which had counters of its own
C12_Witness ==
    /\ last.op = "move=" /\ last.s # last.other
    /\ Live(last.s) /\ touched[last.s]
    /\ depth_[last.s] = MaxDepth /\ width_[last.s] = MaxWidth
    /\ status[last.other] = "moved"
    /\ \E k \in Keys : Count(last.s, k) = Num(2)

(***************************************************************************)
(* C20.  A moved-from sketch has width 0, depth 0 and no counter storage,  *)
(* and the operations on it access no counter: Insert and Clear change     *)
(* nothing, Merge with a constructed sketch fails with invalid_argument,   *)
(* and Count returns 4294967295 (UINT32_MAX) for every key.                *)
(***************************************************************************)
MovedFrom(s) == status[s] = "moved"

C20_MovedFromEmpty ==
    \A s \in Sketches :
        MovedFrom(s) =>
            width_[s] = 0 /\ depth_[s] = 0 /\ DOMAIN count_matrix_[s] = {}

C20_MovedFromOperations ==
    /\ []C20_MovedFromEmpty
    /\ [][\A s \in Sketches :
             MovedFrom(s) =>
                /\ (nInserts' # nInserts /\ last'.s = s)
                      => UNCHANGED <<count_matrix_, width_, depth_, hash_functions_>>
                /\ (last'.op = "Clear" /\ last'.s = s)
                      => UNCHANGED <<count_matrix_, width_, depth_, hash_functions_>>
                /\ (MergeStep /\ (last'.s = s \/ last'.other = s)
                              /\ (Live(last'.s) \/ Live(last'.other)))
                      => /\ last'.error = "invalid_argument"
                         /\ UNCHANGED <<count_matrix_, width_, depth_>>
                /\ (nQueries' # nQueries /\ last'.s = s)
                      => last'.result = <<65535, 65535>>]_vars

\* Count was called on a moved-from object while the sketch moved out of it
\* holds counts
C20_Witness ==
    /\ last.op = "Count" /\ MovedFrom(last.s)
    /\ last.result = UINT32_MAX
    /\ \E s \in Sketches : Live(s) /\ touched[s] /\ Count(s, last.item) = One

(***************************************************************************)
(* C13.  Insert effect and frame: Insert(key) increases exactly depth      *)
(* counters by 1 each, the cell at column hash_i(key) mod width of every   *)
(* row i in [0, depth), and leaves every other counter, the width, the     *)
(* depth and the hash functions unchanged; the depth incremented cells     *)
(* are pairwise distinct positions of the matrix.  (Increasing by 1 is     *)
(* the counters' own addition of 1, modulo 2^32.)                          *)
(***************************************************************************)
\* the step is one Insert(item) call on s
InsertOf(s, item) ==
    /\ nInserts' = nInserts + 1
    /\ last'.s = s /\ last'.item = item /\ last'.times = One

\* the positions of the matrix that Insert(item) adds to
KeyCells(s, item) == {i * width_[s] + Slot(s, i, item) : i \in Rows(s)}

C13_InsertEffectAndFrame ==
    [][\A s \in Sketches, item \in Keys :
          InsertOf(s, item) =>
             /\ Cardinality(KeyCells(s, item)) = depth_[s]
             /\ KeyCells(s, item) \subseteq DOMAIN count_matrix_[s]
             /\ DOMAIN count_matrix_'[s] = DOMAIN count_matrix_[s]
             /\ \A idx \in DOMAIN count_matrix_[s] :
                   count_matrix_'[s][idx] =
                      IF idx \in KeyCells(s, item)
                      THEN ToU32(NumAdd(count_matrix_[s][idx], One))
                      ELSE count_matrix_[s][idx]
             /\ \A other \in Sketches \ {s} :
                   count_matrix_'[other] = count_matrix_[other]
             /\ UNCHANGED <<width_, depth_, hash_functions_>>]_vars

\* an Insert into a sketch of MaxDepth rows that took one counter to 2 and
\* left a counter that is not the key's at another key's count
C13_Witness ==
    /\ last.op = "Insert" /\ last.times = One
    /\ depth_[last.s] = MaxDepth /\ width_[last.s] = MaxWidth
    /\ \E idx \in KeyCells(last.s, last.item) : count_matrix_[last.s][idx] = Num(2)
    /\ \E idx \in DOMAIN count_matrix_[last.s] \ KeyCells(last.s, last.item) :
          count_matrix_[last.s][idx] = One

(***************************************************************************)
(* C16.  Counter overflow: counters are 32-bit unsigned; an increment or   *)
(* a merge-add always succeeds without error, and an addition that exceeds *)
(* 2^32 - 1 wraps modulo 2^32 (an Insert on a cell holding 2^32 - 1 leaves *)
(* it at 0), it does not saturate.                                         *)
(***************************************************************************)
\* a + b reduced modulo 2^32, a and b below 2^32
Wrapped(a, b) ==
    LET sum == NumAdd(a, b)
    IN IF sum[1] >= Base THEN <<sum[1] - Base, sum[2]>> ELSE sum

C16_CounterOverflowWraps ==
    [][/\ \A s \in Sketches, item \in Keys :
             InsertOf(s, item) =>
                \A idx \in KeyCells(s, item) :
                   /\ count_matrix_[s][idx] = <<65535, 65535>>
                         => count_matrix_'[s][idx] = <<0, 0>>
                   /\ count_matrix_'[s][idx] = Wrapped(count_matrix_[s][idx], One)
       /\ \A s, other \in Sketches :
             (MergeStep /\ last'.s = s /\ last'.other = other
                 /\ width_[s] = width_[other] /\ depth_[s] = depth_[other])
             => /\ last'.error = "none"
                /\ \A idx \in DOMAIN count_matrix_[s] :
                      count_matrix_'[s][idx] =
                         Wrapped(count_matrix_[s][idx], count_matrix_[other][idx])]_vars

\* an Insert has just taken a counter from 2^32 - 1 to 0
C16_Witness ==
    /\ last.op = "Insert" /\ last.times = One
    /\ \E i \in Rows(last.s) :
          /\ count_matrix_[last.s][i * width_[last.s] + Slot(last.s, i, last.item)] = Zero
          /\ Received(last.s, i, Slot(last.s, i, last.item)) = <<Base, 0>>

(***************************************************************************)
(* C18.  Row-sum invariant: in every quiescent state of a sketch reached   *)
(* from construction by Insert, successful Merge and Clear, no counter     *)
(* having overflowed, all depth rows of the matrix have the same sum of    *)
(* counters; with Inserts only since the last Clear that sum is the        *)
(* number of Insert calls, so Count(key) never exceeds that number.        *)
(***************************************************************************)
RowCells(s, i) == {i * width_[s] + pos : pos \in 0 .. (width_[s] - 1)}
RowSum(s, i) == NumSum(count_matrix_[s], RowCells(s, i))
NoOverflow(s) ==
    \A i \in Rows(s), pos \in 0 .. (width_[s] - 1) : IsU32(Received(s, i, pos))
InsertsOnly(s) == content[s] = inserted[s]

Decreases(s, idx) ==
    /\ idx \in DOMAIN count_matrix_'[s]
    /\ NumLess(count_matrix_'[s][idx], count_matrix_[s][idx])

ClearedToZero(s, idx) ==
    last'.op = "Clear" /\ last'.s = s /\ count_matrix_'[s][idx] = Zero

\* the step is an Insert or a Merge whose addition to cell (i, pos) of s
\* passes a multiple of 2^32
WrapsIn(s, i, pos) ==
    /\ last'.op \in {"Insert", "Merge"} /\ last'.s = s
    /\ NumSum(content'[s], {k \in Keys : Slot(s, i, k) = pos})[1] \div Base
          > Received(s, i, pos)[1] \div Base

C15_CounterMonotone ==
    [][\A s \in Sketches : \A idx \in DOMAIN count_matrix_[s] :
          Decreases(s, idx) => ClearedToZero(s, idx)]_vars

\* C15 as amended: a counter's value becomes smaller only through a Clear,
\* which sets it to zero, or through an addition of Insert or Merge that
\* wraps around 2^32.
C15_CounterMonotoneUnlessWrapped ==
    [][\A s \in Sketches :
          count_matrix_'[s] # count_matrix_[s] =>
             \A i \in Rows(s), pos \in 0 .. (width_[s] - 1) :
                Decreases(s, i * width_[s] + pos)
                   => \/ ClearedToZero(s, i * width_[s] + pos)
                      \/ WrapsIn(s, i, pos)]_vars

\* after a Count or TopK of it, the sketch queried was merged into, and a
\* counter of it went up to 2
C15_Witness ==
    /\ MergeDone /\ last.s = Queried /\ last.other # Queried
    /\ nQueries = MaxQueries
    /\ NoOverflow(last.s)
    /\ \E idx \in DOMAIN count_matrix_[last.s] :
          /\ count_matrix_[last.s][idx] = Num(2)
          /\ count_matrix_[last.other][idx] = One

(***************************************************************************)
(* C11.  Insert and Count run concurrently without locking: on a sketch    *)
(* with no Clear or Merge, a Count(key) that overlaps concurrent Inserts   *)
(* returns at least the number of Insert(key) calls that had completed     *)
(* before the Count began and at most the number of Insert calls, for any  *)
(* key, that had started before the Count returned.                        *)
(***************************************************************************)
\* a Count has just returned from a sketch that no Merge was called on
CountedBesideInserts == last.op = "Count" /\ nMerges = 0

C11_CountBetweenBounds ==
    CountedBesideInserts =>
       /\ NumLeq(last.completed, last.result)
       /\ NumLeq(last.result, last.started)

\* C11 as amended: the lower bound holds when fewer than 2^32 Insert calls
\* had started before the Count returned, so that no counter had wrapped.
C11_CountBetweenBoundsUnlessWrapped ==
    CountedBesideInserts =>
       /\ IsU32(last.started) => NumLeq(last.completed, last.result)
       /\ NumLeq(last.result, last.started)

\* a Count that began after one Insert of its key had returned and saw, in
\* every row, the increment of another that had not
C11_Witness ==
    /\ CountedBesideInserts
    /\ depth_[last.s] = MaxDepth
    /\ last.completed = One
    /\ last.result = Num(2)
    /\ last.started = Num(2)
    /\ ~Idle(Writer)

(***************************************************************************)
(* C19.  Monotone reads: if one Count(key) returns before a second         *)
(* Count(key) of the same sketch begins, and no Clear runs in between, the *)
(* second result is at least the first, under any interleaving of          *)
(* concurrent Insert and Merge calls, absent overflow.                     *)
(***************************************************************************)
\* what the Merge calls in flight into s are adding
Merging(s) ==
    {t \in Threads : call[t].op = "Merge" /\ call[t].s = s}

RECURSIVE MergingSum(_)
MergingSum(T) ==
    IF T = {} THEN Zero
    ELSE LET t == CHOOSE u \in T : TRUE
         IN NumAdd(NumSum(content[call[t].other], Keys), MergingSum(T \ {t}))

\* no counter of s can have overflowed: all that was ever added to s, the
\* calls in flight included, is below 2^32
AbsentOverflow(s) ==
    IsU32(NumAdd(NumAdd(NumSum(content[s], Keys), Num(Cardinality(InFlight(s)))),
                 MergingSum(Merging(s))))

C19_MonotoneReads ==
    last.op = "Count" /\ AbsentOverflow(last.s) => NumLeq(last.floor, last.result)

\* a second Count that returned more than the first, a Merge having added
\* to the key's counters
C19_Witness ==
    /\ last.op = "Count" /\ AbsentOverflow(last.s)
    /\ nMerges > 0
    /\ depth_[last.s] = MaxDepth
    /\ last.floor = One
    /\ last.result = Num(3)

(***************************************************************************)
(* C14.  Clear is not atomic with respect to a concurrent Insert: on a     *)
(* sketch of depth 2 or more, an Insert(key) interleaved with an in-flight *)
(* Clear can leave, after both calls have returned, a matrix that is       *)
(* neither all zero (Insert then Clear) nor has the key's cell at 1 in     *)
(* every row (Clear then Insert): the key's cell is 1 in some rows and 0   *)
(* in others.  Whatever the interleaving, the key's cell of a row holds 0  *)
(* or 1, every other cell holds 0, and the rows differ only when there are *)
(* two of them or more.                                                    *)
(***************************************************************************)
\* one Insert(k) and one Clear on the fresh sketch s, both returned
InsertAndClearReturned(s, k) ==
    /\ Live(s)
    /\ AllReturned
    /\ nClears = 1
    /\ ncalls[Writer][k] = 1
    /\ Total(ncalls[Writer], Keys) = 1

\* the key's cell is 1 in some rows and 0 in others
MixedRows(s, k) ==
    /\ \E i \in Rows(s) : count_matrix_[s][InsertIndex(s, i, k)] = One
    /\ \E i \in Rows(s) : count_matrix_[s][InsertIndex(s, i, k)] = Zero

C14_ClearNotAtomic ==
    \A k \in Keys :
       InsertAndClearReturned(Shared, k) =>
          /\ \A idx \in DOMAIN count_matrix_[Shared] :
                IF idx \in {InsertIndex(Shared, i, k) : i \in Rows(Shared)}
                THEN count_matrix_[Shared][idx] \in {Zero, One}
                ELSE count_matrix_[Shared][idx] = Zero
          /\ MixedRows(Shared, k) => depth_[Shared] >= 2

\* both calls have returned and the matrix is that of neither order
C14_Witness ==
    \E k \in Keys :
       /\ InsertAndClearReturned(Shared, k)
       /\ depth_[Shared] = MaxDepth
       /\ MixedRows(Shared, k)

(***************************************************************************)
(* C17.  Interleaving-independent final state: for any set of concurrent   *)
(* Insert calls and Merge calls into the same sketch (no Clear, no         *)
(* overflow, the merged-in operands not being modified), the counter       *)
(* matrix after all calls have completed is the same for every             *)
(* interleaving: the initial matrix plus one increment per Insert per row  *)
(* plus the cell-wise sum of every merged operand.                         *)
(***************************************************************************)
\* the columns of s
Positions(s) == 0 .. (width_[s] - 1)

\* every call into s has returned and no cell of s has been given 2^32
WritersDone(s) ==
    /\ Live(s)
    /\ AllReturned
    /\ \A i \in Rows(s), pos \in Positions(s) : IsU32(Received(s, i, pos))

C17_FinalStateFixed ==
    WritersDone(Shared) =>
       \A i \in Rows(Shared), pos \in Positions(Shared) :
          count_matrix_[Shared][i * width_[Shared] + pos] = Received(Shared, i, pos)

\* each thread has made all its Insert calls, both Merge calls were made,
\* of an operand that is not empty, into a sketch that was not empty
C17_Witness ==
    /\ WritersDone(Shared)
    /\ depth_[Shared] = MaxDepth
    /\ Live(Operand) /\ content[Operand][Counted] = One
    /\ nMerges = MaxThreadMerges
    /\ \A t \in Threads : ncalls[t][Counted] = 1 /\ ncalls[t][Colliding] = 1
    /\ count_matrix_[Shared][0] = Num(5)

====
